---------------------------- MODULE Spec2Model ----------------------------
(***************************************************************************)
(* Model of the URL shortener backend: the create flow                     *)
(* (UrlController.shortenUrl, UrlController.bulkShorten and save() of the  *)
(* Url model), the redirect flow (UrlController.redirectUrl), the owner's  *)
(* operations (getUserUrls, deleteUrl, the per-link reports), the document *)
(* methods of the Url model and the expiry cleanup                         *)
(* (Url.cleanupExpiredUrls), all running against one MongoDB collection    *)
(* `urls` whose shortCode field carries a unique index, and the analytics  *)
(* collection the reports read.                                            *)
(*                                                                         *)
(* Every `await` of a handler is a scheduling point: a handler is a       *)
(* sequence of atomic store operations, and the handlers of different     *)
(* requests interleave between them.  The synchronous code that precedes  *)
(* a store operation is folded into the step of that operation.           *)
(***************************************************************************)
EXTENDS Integers, Sequences, FiniteSets, TLC

\* ------------------------------------------------------------------ bounds
NumProcs  == 2      \* request handlers that may be in flight together
MaxUrls   == 2      \* documents in the collection, create flow
MaxLinks  == 1      \* documents in the collection, redirect flow
MaxClicks == 2      \* click updates recorded over a behaviour
MaxTime   == 2      \* the clock (milliseconds) runs over 0..MaxTime
MaxBatch  == 2      \* entries of a bulkShorten batch that are written out
AttemptCap == 11    \* codes one request generates before the model stops it
MaxUnique == 1      \* calls of incrementUniqueClicks on one loaded document

Procs == 1..NumProcs

\* ------------------------------------------------------------ value spaces
NoCode     == ""    \* customCode / shortCode absent (undefined, falsy)
NoUser     == ""    \* req.user absent, userId null
NoPassword == << >> \* password null
NoDate     == -1    \* expiresAt null
NoId       == 0     \* no document

Users == {"u1", "u2"}
IPs   == {"10.0.0.1", "8.8.8.8"}
\* a password is the sequence of its characters, abridged to one element
Passwords == {<<"s3cret">>}

\* A destination as a caller may send it: protocol, host and whether the
\* string carries surrounding whitespace.
Dests ==
  { [protocol |-> "https", host |-> "example.com", padded |-> FALSE],
    [protocol |-> "http",  host |-> "other.org",   padded |-> FALSE],
    [protocol |-> "ftp",   host |-> "example.com", padded |-> FALSE],
    [protocol |-> "https", host |-> "example.com", padded |-> TRUE] }

NoDest == [protocol |-> "", host |-> "", padded |-> FALSE]

\* Codes the random generator may return, and aliases a caller may ask for.
GenCodes == {"aB3dE6gH", "Zy8xW5vU"}
Aliases  == {"my-link"}
AbsentCode == "nonexistent"
LookupCodes == GenCodes \cup {AbsentCode}

\* Aliases that are not of the format of a short code: too short, too long
\* (21 characters), with a blank inside, and with blanks around it.
LongAlias   == "a-very-long-alias-123"
PaddedAlias == " my-link "
BadAliases  == {"ab", "my link", PaddedAlias, LongAlias}

\* the characters of a code
Spelling(c) ==
  CASE c = "aB3dE6gH" -> <<"a", "B", "3", "d", "E", "6", "g", "H">>
    [] c = "Zy8xW5vU" -> <<"Z", "y", "8", "x", "W", "5", "v", "U">>
    [] c = "my-link" -> <<"m", "y", "-", "l", "i", "n", "k">>
    [] c = "ab" -> <<"a", "b">>
    [] c = "my link" -> <<"m", "y", " ", "l", "i", "n", "k">>
    [] c = " my-link " -> <<" ", "m", "y", "-", "l", "i", "n", "k", " ">>
    [] c = "a-very-long-alias-123" ->
         <<"a", "-", "v", "e", "r", "y", "-", "l", "o", "n", "g", "-", "a", "l", "i", "a", "s", "-", "1", "2", "3">>
    [] c = "nonexistent" ->
         <<"n", "o", "n", "e", "x", "i", "s", "t", "e", "n", "t">>
    [] OTHER -> << >>

SpelledCodes == GenCodes \cup Aliases \cup BadAliases \cup {AbsentCode}

\* the code that is spelled s
Spelled(s) == CHOOSE c \in SpelledCodes : Spelling(c) = s

\* /^[a-zA-Z0-9_-]+$/
CodeChars ==
  { "a", "b", "c", "d", "e", "f", "g", "h", "i", "j", "k", "l",
    "m", "n", "o", "p", "q", "r", "s", "t", "u", "v", "w", "x",
    "y", "z", "A", "B", "C", "D", "E", "F", "G", "H", "I", "J",
    "K", "L", "M", "N", "O", "P", "Q", "R", "S", "T", "U", "V",
    "W", "X", "Y", "Z", "0", "1", "2", "3", "4", "5", "6", "7",
    "8", "9", "_", "-" }

\* String.prototype.trim, the setter of the schema option trim: true
RECURSIVE TrimChars(_)
TrimChars(s) ==
  IF s = << >> THEN s
  ELSE IF Head(s) = " " THEN TrimChars(Tail(s))
  ELSE IF s[Len(s)] = " " THEN TrimChars(SubSeq(s, 1, Len(s) - 1))
  ELSE s

\* the setter of shortCode, as it runs on a value that is saved and on a
\* value in a filter
TrimCode(c) ==
  IF c \in SpelledCodes THEN Spelled(TrimChars(Spelling(c))) ELSE c

\* the validators of shortCode: minlength 3, maxlength 20, match
ShortCodeValid(c) ==
  LET s == Spelling(c) IN
  /\ Len(s) >= 3
  /\ Len(s) <= 20
  /\ \A k \in 1..Len(s) : s[k] \in CodeChars

\* An expiry of 1 is one millisecond ahead of the clock at 0, equal to it at
\* 1 and one millisecond behind it at 2.
ExpiryInputs == {NoDate, 1}

VARIABLES
  urls,     \* the urls collection: a sequence of documents, _id = position
  reqs,     \* per handler: its position (pc) and its local variables
  resp,     \* per handler: the response it has sent
  now,      \* the clock, in milliseconds
  geoip,    \* the module variable geoip: "null" or "loaded"
  analytics \* the analytics collection: a sequence of click events

vars == <<urls, reqs, resp, now, geoip, analytics>>

\* ------------------------------------------------------------- validation
\* validator.isURL(url, {protocols: ['http','https'], require_protocol: true})
IsURL(d) == d.protocol \in {"http", "https"} /\ ~d.padded

\* the schema option trim: true on originalUrl
Trim(d) == [d EXCEPT !.padded = FALSE]

\* utils/validateUrl.js as used by the controllers
validateUrl(d) == IsURL(d)

\* expiresAt validator of the schema: !date || date > new Date()
ExpiresAtValid(e, t) == e = NoDate \/ e > t

\* ------------------------------------------------------------------ store
Ids(store) == 1..Len(store)

\* Url.findOne({ shortCode })
FindByShortCode(store, c) ==
  {i \in Ids(store) : store[i].shortCode = TrimCode(c)}

\* Url.findOne({ $or: [{ shortCode: customCode }, { customCode }] })
existingCustom_NoCheck(store, cc) == {}

existingCustom(store, cc) ==
  {i \in Ids(store) :
     store[i].shortCode = TrimCode(cc) \/ store[i].customCode = cc}

\* the unique index on shortCode: an insert of a code that is already the
\* shortCode of a document is rejected with a duplicate-key error (E11000)
DuplicateKey_NoIndex(store, c) == FALSE

DuplicateKey(store, c) == FindByShortCode(store, c) # {}

NewUrl(d, c, cc, u, e, pw) ==
  [ originalUrl  |-> Trim(d),
    shortCode    |-> TrimCode(c),
    customCode   |-> cc,
    userId       |-> u,
    isActive     |-> TRUE,
    expiresAt    |-> e,
    password     |-> pw,
    clicks       |-> 0,
    uniqueClicks |-> 0,
    lastAccessedAt |-> NoDate,
    clickHistory |-> << >> ]

\* urlSchema.methods.isExpired
isExpired(u, t) == u.expiresAt # NoDate /\ u.expiresAt < t

\* urlSchema.methods.isAccessible
isAccessible(u, t) == u.isActive /\ ~isExpired(u, t)

\* the filter of redirectUrl:
\*   { shortCode, isActive: true,
\*     $or: [{ expiresAt: null }, { expiresAt: { $gt: new Date() } }] }
RedirectFind_AnyCode(store, c, t) ==
  {i \in Ids(store) :
     /\ store[i].isActive
     /\ (store[i].expiresAt = NoDate \/ store[i].expiresAt > t)}

RedirectFind(store, c, t) ==
  {i \in Ids(store) :
     /\ store[i].shortCode = c
     /\ store[i].isActive
     /\ (store[i].expiresAt = NoDate \/ store[i].expiresAt > t)}

\* geoip.lookup(ip) followed by geo?.country || 'Unknown'
Country(ip) == IF ip = "8.8.8.8" THEN "US" ELSE "Unknown"

\* Url.findByIdAndUpdate(url._id, { $inc: {clicks: 1}, $push: {clickHistory} })
\* url is the document as the handler read it.  clickHistory is the list of
\* the clicks the handler pushes, as the update states it; the schema of
\* the Url model declares no such path, and a document loaded through the
\* model does not show it (see UrlGetUrlAnalytics).
findByIdAndUpdate_ReadModifyWrite(store, url, click) ==
  [store EXCEPT ![url.id] =
     [@ EXCEPT !.clicks = url.clicks + 1,
               !.clickHistory = Append(@, click)]]

findByIdAndUpdate(store, url, click) ==
  [store EXCEPT ![url.id] =
     [@ EXCEPT !.clicks = @ + 1,
               !.clickHistory = Append(@, click)]]

\* bcrypt.hash(password, 12) of the second pre-save hook
Hash(pw) == <<"bcrypt">> \o pw

\* Maximum 50 URLs allowed for bulk shortening
BulkLimit == 50

\* --------------------------------------------------------------- handlers
\* the document a handler holds in its local variable url
NoUrl == [id |-> NoId, originalUrl |-> NoDest, clicks |-> 0]

\* the document a caller of the model's methods holds after Url.findOne
NoDoc == [id |-> NoId, shortCode |-> NoCode, clicks |-> 0,
          uniqueClicks |-> 0, expiresAt |-> NoDate]

\* pc = "idle": no request in flight; kind, originalUrl, customCode and
\* shortCode then still name the last request, and resp[p] is its response
IdleReq ==
  [ kind        |-> "none",
    pc          |-> "idle",
    originalUrl |-> NoDest,     \* req.body.originalUrl
    customCode  |-> NoCode,     \* req.body.customCode
    shortCode   |-> NoCode,     \* let shortCode / req.params.shortCode
    attempts    |-> 0,          \* codes generated for this request so far
    userId      |-> NoUser,
    expiresAt   |-> NoDate,
    password    |-> NoPassword,
    items       |-> << >>,      \* req.body.urls
    idx         |-> 0,
    created     |-> 0,          \* shortenedUrls.length
    ip          |-> "",
    url         |-> NoUrl,
    doc         |-> NoDoc,      \* a document loaded for a method call
    page        |-> 0,          \* req.query.page
    limit       |-> 0,          \* req.query.limit
    listed      |-> << >>,      \* the documents Url.find returned
    method      |-> "",         \* the method called last on doc
    route       |-> "",         \* the analytics route that was asked
    timeframe   |-> "",         \* req.query.timeframe
    urlIds      |-> {},         \* the links whose events are counted
    startDate   |-> 0,
    endDate     |-> 0 ]

NoResp == [via |-> "none", status |-> 0, error |-> "",
           shortCode |-> NoCode, location |-> NoDest, count |-> 0,
           unique |-> 0, recent |-> 0, id |-> NoId, list |-> << >>]

\* res.status(s).json({ ..., error: e })
Json(s, e) == [NoResp EXCEPT !.via = "json", !.status = s, !.error = e]

\* next(error), or a rejected save(): the error leaves the handler
NextError(e) == [NoResp EXCEPT !.via = "next", !.error = e]

\* res.redirect(301, url.originalUrl)
RedirectTo(d) == [NoResp EXCEPT !.via = "redirect", !.status = 301,
                                !.location = d]

\* what stays of a request once it is answered
Answered(r) ==
  [IdleReq EXCEPT !.kind = r.kind, !.originalUrl = r.originalUrl,
                  !.customCode = r.customCode,
                  !.shortCode = IF r.kind \in {"redirect", "analytics",
                                               "report", "delete"}
                                THEN r.shortCode ELSE NoCode,
                  !.route = r.route, !.timeframe = r.timeframe,
                  !.page = r.page, !.limit = r.limit,
                  !.userId = IF r.kind \in {"analytics", "report", "list",
                                            "delete"}
                             THEN r.userId ELSE NoUser]

Finish(p, r, answer) ==
  /\ reqs' = [reqs EXCEPT ![p] = Answered(r)]
  /\ resp' = [resp EXCEPT ![p] = answer]

Proceed(p, r) ==
  /\ reqs' = [reqs EXCEPT ![p] = r]
  /\ resp' = [resp EXCEPT ![p] = NoResp]

\* documents that handlers in flight may still insert
Pending(r) ==
  IF r.pc \in {"ensureUnique", "create", "insert"} THEN 1
  ELSE IF r.pc = "bulk"
       THEN Cardinality({k \in r.idx..Len(r.items) : validateUrl(r.items[k])})
  ELSE 0

RECURSIVE SumPending(_)
SumPending(S) ==
  IF S = {} THEN 0
  ELSE LET p == CHOOSE x \in S : TRUE
       IN  Pending(reqs[p]) + SumPending(S \ {p})

Room(n, max) == Len(urls) + SumPending(Procs) + n <= max

RECURSIVE SumClicks(_)
SumClicks(n) == IF n = 0 THEN 0 ELSE urls[n].clicks + SumClicks(n - 1)

ClickRoom ==
  SumClicks(Len(urls))
    + Cardinality({p \in Procs : reqs[p].pc = "update"}) < MaxClicks

\* UrlController.shortenUrl, up to and including the availability check
ShortenUrl(p, DS, CS, US, ES, max) ==
  /\ reqs[p].pc = "idle"
  /\ \E d \in DS, cc \in CS, u \in US, e \in ES :
       LET r == [IdleReq EXCEPT !.kind = "shorten", !.originalUrl = d,
                                !.customCode = cc, !.userId = u,
                                !.expiresAt = e]
       IN
       IF ~validateUrl(d)
       THEN Finish(p, r, Json(400, "INVALID_URL"))
       ELSE IF cc # NoCode /\ existingCustom(urls, cc) # {}
       THEN Finish(p, r, Json(409, "CODE_TAKEN"))
       ELSE /\ Room(1, max)
            /\ \E g \in GenCodes :
                 Proceed(p, [r EXCEPT !.pc = "ensureUnique",
                                      !.shortCode =
                                         IF cc # NoCode THEN cc ELSE g,
                                      !.attempts =
                                         IF cc # NoCode THEN 0 ELSE 1])
  /\ UNCHANGED <<urls, now, geoip, analytics>>

\* one evaluation of: while (await Url.findOne({ shortCode })) { ... }
ShortenEnsureUnique(p) ==
  /\ reqs[p].pc = "ensureUnique"
  /\ IF FindByShortCode(urls, reqs[p].shortCode) # {}
     THEN /\ reqs[p].attempts < AttemptCap
          /\ \E g \in GenCodes :
               reqs' = [reqs EXCEPT ![p].shortCode = g,
                                    ![p].attempts = @ + 1]
     ELSE reqs' = [reqs EXCEPT ![p].pc = "create"]
  /\ UNCHANGED <<urls, resp, now, geoip, analytics>>

\* Url.create(urlData) and the response of shortenUrl
ShortenCreate(p) ==
  /\ reqs[p].pc = "create"
  /\ LET r == reqs[p] IN
     IF ~ShortCodeValid(TrimCode(r.shortCode))
          \/ ~ExpiresAtValid(r.expiresAt, now)
     THEN /\ Finish(p, r, NextError("ValidationError"))
          /\ UNCHANGED urls
     ELSE IF DuplicateKey(urls, r.shortCode)
     THEN /\ Finish(p, r, NextError("E11000"))
          /\ UNCHANGED urls
     ELSE /\ urls' = Append(urls, NewUrl(r.originalUrl, r.shortCode,
                                         r.customCode, r.userId,
                                         r.expiresAt, NoPassword))
          /\ Finish(p, r, [Json(201, "") EXCEPT
                             !.shortCode = TrimCode(r.shortCode),
                             !.location  = Trim(r.originalUrl)])
  /\ UNCHANGED <<now, geoip, analytics>>

\* req.body.urls: the entries of a batch of at most MaxBatch entries, and a
\* batch of BulkLimit + 1 entries, none of which is ever read
Batches(DS) ==
  UNION {[1..k -> DS] : k \in 0..MaxBatch}

\* UrlController.bulkShorten, the checks ahead of the loop
BulkShorten(p, DS, US, max) ==
  /\ reqs[p].pc = "idle"
  /\ \E u \in US :
       LET r == [IdleReq EXCEPT !.kind = "bulk", !.userId = u] IN
       \/ \E n \in {0, BulkLimit + 1} :
            /\ Finish(p, r, NextError(IF n = 0 THEN "NoUrls" ELSE "TooMany"))
       \/ \E b \in Batches(DS) :
            /\ Len(b) > 0
            /\ Len(b) <= BulkLimit
            /\ Room(Cardinality({k \in 1..Len(b) : validateUrl(b[k])}), max)
            /\ Proceed(p, [r EXCEPT !.pc = "bulk", !.items = b, !.idx = 1])
  /\ UNCHANGED <<urls, now, geoip, analytics>>

\* one pass of the loop of bulkShorten; the pass over the last entry also
\* sends the response
BulkStep(p) ==
  /\ reqs[p].pc = "bulk"
  /\ LET r    == reqs[p]
         item == r.items[r.idx]
         last == r.idx = Len(r.items)
         Go(n) ==
           IF last
           THEN Finish(p, r, [Json(201, "") EXCEPT !.count = n])
           ELSE /\ reqs' = [reqs EXCEPT ![p].idx = r.idx + 1,
                                        ![p].created = n]
                /\ UNCHANGED resp
     IN
     IF ~validateUrl(item)
     THEN Go(r.created) /\ UNCHANGED urls
     ELSE \E g \in GenCodes :
            IF DuplicateKey(urls, g)
            THEN Go(r.created) /\ UNCHANGED urls
            ELSE /\ urls' = Append(urls, NewUrl(item, g, NoCode, r.userId,
                                                NoDate, NoPassword))
                 /\ Go(r.created + 1)
  /\ UNCHANGED <<now, geoip, analytics>>

\* new Url({ originalUrl, shortCode, shortUrl, userId, expiresAt, password })
\* .save(): validation.  Mongoose validates ahead of the pre-save hooks, so
\* a document without shortCode fails the required check and the loop of
\* the first hook, which would generate one, is not reached; with a
\* shortCode the hook only sets shortUrl.
SaveUrl(p, DS, CS, US, ES, PS, max) ==
  /\ reqs[p].pc = "idle"
  /\ \E d \in DS, c \in CS, u \in US, e \in ES, pw \in PS :
       LET r == [IdleReq EXCEPT !.kind = "save", !.originalUrl = d,
                                !.shortCode = c, !.userId = u,
                                !.expiresAt = e, !.password = pw]
       IN
       IF \/ c = NoCode
          \/ ~ShortCodeValid(TrimCode(c))
          \/ ~IsURL(Trim(d))
          \/ ~ExpiresAtValid(e, now)
       THEN Finish(p, r, NextError("ValidationError"))
       ELSE /\ Room(1, max)
            /\ Proceed(p, [r EXCEPT !.pc = "insert"])
  /\ UNCHANGED <<urls, now, geoip, analytics>>

\* the insert of save(), after both pre-save hooks
SaveInsert(p) ==
  /\ reqs[p].pc = "insert"
  /\ LET r == reqs[p] IN
     IF DuplicateKey(urls, r.shortCode)
     THEN /\ Finish(p, r, NextError("E11000"))
          /\ UNCHANGED urls
     ELSE /\ urls' = Append(urls,
                NewUrl(r.originalUrl, r.shortCode, NoCode, r.userId,
                       r.expiresAt,
                       IF r.password = NoPassword THEN NoPassword
                       ELSE Hash(r.password)))
          /\ Finish(p, r, [NoResp EXCEPT !.via = "return",
                                         !.shortCode = r.shortCode,
                                         !.location = Trim(r.originalUrl)])
  /\ UNCHANGED <<now, geoip, analytics>>

\* UrlController.redirectUrl, up to the click data
RedirectUrl(p, CS, IS) ==
  /\ reqs[p].pc = "idle"
  /\ \E c \in CS, ip \in IS :
       LET r     == [IdleReq EXCEPT !.kind = "redirect", !.shortCode = c,
                                    !.ip = ip]
           found == RedirectFind(urls, c, now)
       IN
       IF found = {}
       THEN Finish(p, r, Json(404, "URL_NOT_FOUND"))
       ELSE IF geoip # "loaded"
       THEN Finish(p, r, NextError("TypeError"))
       ELSE /\ ClickRoom
            /\ \E i \in found :
                 Proceed(p, [r EXCEPT !.pc = "update",
                                      !.url = [id |-> i,
                                               originalUrl |->
                                                 urls[i].originalUrl,
                                               clicks |-> urls[i].clicks]])
  /\ UNCHANGED <<urls, now, geoip, analytics>>

\* the click update of redirectUrl and the redirect; where the store
\* rejects the update, the await throws and the catch block calls next(error)
RedirectUpdate(p) ==
  /\ reqs[p].pc = "update"
  /\ LET r == reqs[p]
         clickData == [timestamp |-> now, ip |-> r.ip,
                       country |-> Country(r.ip)]
     IN
     \/ /\ urls' = findByIdAndUpdate(urls, r.url, clickData)
        /\ Finish(p, r, RedirectTo(r.url.originalUrl))
     \/ /\ UNCHANGED urls
        /\ Finish(p, r, NextError("MongoError"))
  /\ UNCHANGED <<now, geoip, analytics>>

\* A filter condition { _id: undefined }: a route that names its parameter
\* shortCode hands it to a handler that reads req.params.id.  Mongoose
\* either drops the condition from the filter or sends it as null, which
\* is the _id of no document.
UndefinedId == {"dropped", "null"}

MatchUndefinedId(mode, S) == IF mode = "dropped" THEN S ELSE {}

\* validateShortCode: param('shortCode') of 3 to 20 characters that matches
\* /^[a-zA-Z0-9_-]+$/
validateShortCode(c) == ShortCodeValid(c)

\* the update { isActive: false } of deleteUrl on document i
SoftDelete_Remove(store, i) ==
  SubSeq(store, 1, i - 1) \o SubSeq(store, i + 1, Len(store))

SoftDelete(store, i) == [store EXCEPT ![i].isActive = FALSE]

\* DELETE /api/urls/:shortCode: authenticate, validateShortCode, then
\* UrlController.deleteUrl, whose filter { _id: id, userId } is built from
\* req.params.id, which that route does not set; findOneAndUpdate then
\* updates one of the documents the remaining filter matches
DeleteUrl(p, CS, US) ==
  /\ reqs[p].pc = "idle"
  /\ \E c \in CS, u \in US, mode \in UndefinedId :
       LET r == [IdleReq EXCEPT !.kind = "delete", !.shortCode = c,
                                !.userId = u]
           match == MatchUndefinedId(mode,
                      {i \in Ids(urls) : urls[i].userId = u})
       IN
       IF ~validateShortCode(c)
       THEN /\ Finish(p, r, [NextError("Invalid short code") EXCEPT
                               !.status = 400])
            /\ UNCHANGED urls
       ELSE IF match = {}
       THEN /\ Finish(p, r, Json(404, "URL_NOT_FOUND"))
            /\ UNCHANGED urls
       ELSE \E i \in match :
              /\ urls' = SoftDelete(urls, i)
              /\ Finish(p, r, [Json(200, "") EXCEPT !.id = i])
  /\ UNCHANGED <<now, geoip, analytics>>

\* Url.cleanupExpiredUrls: updateMany({ expiresAt: { $lt: now } }, ...)
CleanupExpiredUrls ==
  /\ urls' = [i \in Ids(urls) |->
                IF urls[i].expiresAt # NoDate /\ urls[i].expiresAt < now
                THEN [urls[i] EXCEPT !.isActive = FALSE]
                ELSE urls[i]]
  /\ UNCHANGED <<reqs, resp, now, geoip, analytics>>

\* initGeoip: the dynamic import of geoip-lite resolves.  Where the module
\* is not installed the import rejects, the catch block only warns, and
\* geoip stays null: these are the behaviours in which this step never
\* happens.
initGeoip ==
  /\ geoip = "null"
  /\ geoip' = "loaded"
  /\ UNCHANGED <<urls, reqs, resp, now, analytics>>

Tick ==
  /\ now < MaxTime
  /\ now' = now + 1
  /\ UNCHANGED <<urls, reqs, resp, geoip, analytics>>

Init ==
  /\ urls = << >>
  /\ reqs = [p \in Procs |-> IdleReq]
  /\ resp = [p \in Procs |-> NoResp]
  /\ now = 0
  /\ geoip = "null"
  /\ analytics = << >>

\* ------------------------------------------------------------ create flow
Creator   == {"u1"}
BulkDests == {d \in Dests : d.host = "example.com" /\ ~d.padded}
SaveDests == {d \in Dests : d.host = "example.com" /\ d.protocol = "https"}

NextCreate ==
  \/ \E p \in Procs :
       ShortenUrl(p, Dests, Aliases \cup {NoCode}, Creator,
                  {NoDate}, MaxUrls)
  \/ \E p \in Procs : ShortenEnsureUnique(p)
  \/ \E p \in Procs : ShortenCreate(p)
  \/ \E p \in Procs : BulkShorten(p, BulkDests, Creator, MaxUrls)
  \/ \E p \in Procs : BulkStep(p)
  \/ \E p \in Procs : SaveUrl(p, SaveDests, GenCodes \cup {NoCode}, Creator,
                              {NoDate}, {NoPassword}, MaxUrls)
  \/ \E p \in Procs : SaveInsert(p)

SpecCreate == Init /\ [][NextCreate]_vars

\* ---------------------------------------------------------- redirect flow
ValidDests == {d \in Dests : IsURL(d)}

NextResolve ==
  \/ \E p \in Procs :
       ShortenUrl(p, ValidDests, {NoCode}, Creator, ExpiryInputs, MaxLinks)
  \/ \E p \in Procs : ShortenEnsureUnique(p)
  \/ \E p \in Procs : ShortenCreate(p)
  \/ \E p \in Procs : SaveUrl(p, SaveDests \cap ValidDests, GenCodes,
                              Creator, ExpiryInputs, Passwords, MaxLinks)
  \/ \E p \in Procs : SaveInsert(p)
  \/ \E p \in Procs : RedirectUrl(p, LookupCodes, IPs)
  \/ \E p \in Procs : RedirectUpdate(p)
  \/ \E p \in Procs : DeleteUrl(p, {"aB3dE6gH"}, Users)
  \/ CleanupExpiredUrls
  \/ initGeoip
  \/ Tick

SpecResolve == Init /\ [][NextResolve]_vars

\* --------------------------------------------------------- analytics flow
\* In this flow the clock counts hours.
Days(n) == 24 * n

\* req.query.timeframe absent
NoTimeframe == ""

\* values a caller may send as timeframe: the five named windows, one
\* unknown value, and none
TimeframeInputs == {"24h", "7d", "30d", "90d", "all", "1y", NoTimeframe}

\* validateAnalyticsQuery: optional().isIn(['24h', '7d', '30d', 'all'])
validateAnalyticsQuery(tf) ==
  tf = NoTimeframe \/ tf \in {"24h", "7d", "30d", "all"}

\* the switch of getUrlAnalytics over timeframe, default '7d'
UrlStartDate(tf, t) ==
  CASE tf = "24h" -> t - 24
    [] tf = "7d"  -> t - Days(7)
    [] tf = "30d" -> t - Days(30)
    [] tf = "90d" -> t - Days(90)
    [] OTHER      -> t - Days(7)

\* the switch of getUserAnalytics and getSystemAnalytics, default '30d'
UserStartDate(tf, t) ==
  CASE tf = "7d"  -> t - Days(7)
    [] tf = "30d" -> t - Days(30)
    [] tf = "90d" -> t - Days(90)
    [] OTHER      -> t - Days(30)

\* Analytics.find({ urlId, timestamp: { $gte: startDate, $lte: endDate } })
AnalyticsFind(store, ids, s, e) ==
  {k \in 1..Len(store) :
     /\ store[k].urlId \in ids
     /\ store[k].timestamp >= s
     /\ store[k].timestamp <= e}

\* the error handleValidationErrors passes on: new AppError(..., 400)
ValidationFailed == [NextError("Invalid timeframe") EXCEPT !.status = 400]

\* GET /api/analytics/url/:shortCode: validateShortCode,
\* validateAnalyticsQuery, then
\* getUrlAnalytics up to its Analytics.find
GetUrlAnalytics(p, CS, US, TS) ==
  /\ reqs[p].pc = "idle"
  /\ \E c \in CS, u \in US, tf \in TS :
       LET r == [IdleReq EXCEPT !.kind = "analytics", !.route = "url",
                                !.shortCode = c, !.userId = u,
                                !.timeframe = tf]
           timeframe == IF tf = NoTimeframe THEN "7d" ELSE tf
           found == FindByShortCode(urls, c)
       IN
       IF ~validateShortCode(c) \/ ~validateAnalyticsQuery(tf)
       THEN Finish(p, r, ValidationFailed)
       ELSE IF found = {}
       THEN Finish(p, r, Json(404, ""))
       ELSE \E i \in found :
              IF u # NoUser /\ urls[i].userId # NoUser /\ urls[i].userId # u
              THEN Finish(p, r, Json(403, ""))
              ELSE Proceed(p, [r EXCEPT !.pc = "find", !.urlIds = {i},
                                        !.startDate =
                                           UrlStartDate(timeframe, now),
                                        !.endDate = now])
  /\ UNCHANGED <<urls, now, geoip, analytics>>

\* GET /api/analytics/user, /dashboard (getUserAnalytics) and /system
\* (getSystemAnalytics, asked by an admin), up to the query on the analytics
\* collection; the dashboard route has no validateAnalyticsQuery
GetUserAnalytics(p, RS, US, TS) ==
  /\ reqs[p].pc = "idle"
  /\ \E route \in RS, u \in US, tf \in TS :
       LET r == [IdleReq EXCEPT !.kind = "analytics", !.route = route,
                                !.userId = u, !.timeframe = tf]
           timeframe == IF tf = NoTimeframe THEN "30d" ELSE tf
       IN
       IF route # "dashboard" /\ ~validateAnalyticsQuery(tf)
       THEN Finish(p, r, ValidationFailed)
       ELSE Proceed(p, [r EXCEPT !.pc = "find",
                                 !.urlIds =
                                    IF route = "system" THEN Ids(urls)
                                    ELSE {i \in Ids(urls) :
                                            urls[i].userId = u},
                                 !.startDate = UserStartDate(timeframe, now),
                                 !.endDate = now])
  /\ UNCHANGED <<urls, now, geoip, analytics>>

\* the query on the analytics collection and the response: totalClicks
\* and uniqueClicks
AnalyticsCount(p) ==
  /\ reqs[p].pc = "find"
  /\ LET r == reqs[p]
         found == AnalyticsFind(analytics, r.urlIds, r.startDate, r.endDate)
     IN
     Finish(p, r, [Json(200, "") EXCEPT
                     !.count = Cardinality(found),
                     !.unique = Cardinality({analytics[k].ipAddress :
                                               k \in found})])
  /\ UNCHANGED <<urls, now, geoip, analytics>>

\* GET /api/urls/:shortCode/analytics: authenticate, validateShortCode,
\* validateAnalyticsQuery, then UrlController.getUrlAnalytics.  The handler
\* looks the document up by req.params.id and filters url.clickHistory,
\* which a document of the Url model does not have: the filter call throws
\* a TypeError and the catch block calls next(error).
UrlGetUrlAnalytics(p, CS, US, TS) ==
  /\ reqs[p].pc = "idle"
  /\ \E c \in CS, u \in US, tf \in TS, mode \in UndefinedId :
       LET r == [IdleReq EXCEPT !.kind = "report", !.shortCode = c,
                                !.userId = u, !.timeframe = tf]
           match == MatchUndefinedId(mode,
                      {i \in Ids(urls) :
                         urls[i].userId = u \/ urls[i].userId = NoUser})
       IN
       IF ~validateShortCode(c) \/ ~validateAnalyticsQuery(tf)
       THEN Finish(p, r, ValidationFailed)
       ELSE IF match = {}
       THEN Finish(p, r, Json(404, "URL_NOT_FOUND"))
       ELSE Finish(p, r, NextError("TypeError"))
  /\ UNCHANGED <<urls, now, geoip, analytics>>

\* The analytics collection as a reader finds it.  Ages of the events, in
\* hours: on the edge of the 24-hour window, and inside the 7-day, 30-day
\* and 90-day windows and beyond them.
EventAges == {24, Days(3), Days(20), Days(60), Days(100)}
AnalyticsNow == Days(120)

\* the events that are 3 and 20 days old come from one address, the others
\* from another
Event(i, age) ==
  [urlId |-> i,
   ipAddress |-> IF age \in {Days(3), Days(20)} THEN "10.0.0.1"
                 ELSE "8.8.8.8",
   timestamp |-> AnalyticsNow - age]

RECURSIVE EventsAt(_, _)
EventsAt(i, A) ==
  IF A = {} THEN << >>
  ELSE LET a == CHOOSE x \in A : \A y \in A : x >= y
       IN  <<Event(i, a)>> \o EventsAt(i, A \ {a})

InitAnalytics ==
  /\ urls = << NewUrl(CHOOSE d \in ValidDests : d.host = "example.com",
                      "aB3dE6gH", NoCode, "u1", NoDate, NoPassword),
               NewUrl(CHOOSE d \in ValidDests : d.host = "other.org",
                      "Zy8xW5vU", NoCode, "u2", NoDate, NoPassword) >>
  /\ analytics \in {EventsAt(1, A) \o EventsAt(2, B) :
                      A \in SUBSET EventAges, B \in SUBSET {Days(3)}}
  /\ reqs = [p \in Procs |-> IdleReq]
  /\ resp = [p \in Procs |-> NoResp]
  /\ now = AnalyticsNow
  /\ geoip = "null"

AnalyticsRoutes == {"user", "dashboard", "system"}

NextAnalytics ==
  \/ \E p \in Procs :
       GetUrlAnalytics(p, {"aB3dE6gH", AbsentCode}, {NoUser},
                       TimeframeInputs)
  \/ \E p \in Procs :
       GetUserAnalytics(p, AnalyticsRoutes, {"u1"}, TimeframeInputs)
  \/ \E p \in Procs : AnalyticsCount(p)
  \/ \E p \in Procs :
       UrlGetUrlAnalytics(p, {"aB3dE6gH"}, {"u1"}, {NoTimeframe, "1y"})

SpecAnalytics == InitAnalytics /\ [][NextAnalytics]_vars

\* ------------------------------------------------------- document methods
\* the instance methods of the Url model that end in this.save(), and a
\* plain save() of a loaded document
Methods == {"incrementClicks", "incrementUniqueClicks", "updateLastAccess",
            "save"}

\* const url = await Url.findOne({ shortCode })
LoadUrl(p, CS) ==
  /\ reqs[p].pc = "idle"
  /\ \E c \in CS :
       LET r == [IdleReq EXCEPT !.kind = "method"]
           found == FindByShortCode(urls, c)
       IN
       IF found = {}
       THEN Finish(p, r, [NoResp EXCEPT !.via = "return"])
       ELSE \E i \in found :
              Proceed(p, [r EXCEPT !.pc = "loaded",
                                   !.doc = [id |-> i,
                                            shortCode |-> urls[i].shortCode,
                                            clicks |-> urls[i].clicks,
                                            uniqueClicks |->
                                              urls[i].uniqueClicks,
                                            expiresAt |->
                                              urls[i].expiresAt]])
  /\ UNCHANGED <<urls, now, geoip, analytics>>

\* the assignments a method makes to the document before it calls save()
\* (the counters under this.analytics are not part of the model)
Assigned(m, d) ==
  CASE m = "incrementClicks"       -> [d EXCEPT !.clicks = @ + 1]
    [] m = "incrementUniqueClicks" -> [d EXCEPT !.uniqueClicks = @ + 1]
    [] OTHER                       -> d

\* the first pre-save hook: if (!this.shortCode) a code is generated
PreSaveGenerates_Always(d) == TRUE

PreSaveGenerates(d) == d.shortCode = NoCode

\* url.incrementClicks(), url.incrementUniqueClicks(),
\* url.updateLastAccess() or url.save() on a loaded document: the
\* assignments, then save(), which validates the loaded paths (expiresAt
\* among them), runs the pre-save hooks and writes the modified paths with
\* the values the document holds
CallMethod(p, MS) ==
  /\ reqs[p].pc = "loaded"
  /\ \E m \in MS, g \in GenCodes :
       LET d  == reqs[p].doc
           d2 == Assigned(m, d)
           generated == PreSaveGenerates(d2)
           d3 == IF generated THEN [d2 EXCEPT !.shortCode = g] ELSE d2
       IN
       /\ d2.clicks <= MaxClicks
       /\ d2.uniqueClicks <= MaxUnique
       /\ IF ~ExpiresAtValid(d.expiresAt, now)
          THEN /\ reqs' = [reqs EXCEPT ![p].doc = d2, ![p].method = m]
               /\ resp' = [resp EXCEPT ![p] = NextError("ValidationError")]
               /\ UNCHANGED urls
          ELSE /\ urls' = [urls EXCEPT ![d.id] =
                   [@ EXCEPT
                      !.clicks = IF m = "incrementClicks"
                                 THEN d3.clicks ELSE @,
                      !.uniqueClicks = IF m = "incrementUniqueClicks"
                                       THEN d3.uniqueClicks ELSE @,
                      !.lastAccessedAt =
                         IF m \in {"incrementClicks", "updateLastAccess"}
                         THEN now ELSE @,
                      !.shortCode = IF generated THEN g ELSE @]]
               /\ reqs' = [reqs EXCEPT ![p].doc = d3, ![p].method = m]
               /\ resp' = [resp EXCEPT ![p] =
                             [NoResp EXCEPT !.via = "return"]]
  /\ UNCHANGED <<now, geoip, analytics>>

\* the caller lets go of the document
Unload(p) ==
  /\ reqs[p].pc = "loaded"
  /\ Finish(p, reqs[p], resp[p])
  /\ UNCHANGED <<urls, now, geoip, analytics>>

MethodCode  == {"aB3dE6gH"}
MethodDests == {d \in SaveDests : IsURL(d)}

NextMethods ==
  \/ \E p \in Procs : SaveUrl(p, MethodDests, MethodCode, Creator,
                              ExpiryInputs, {NoPassword}, MaxLinks)
  \/ \E p \in Procs : SaveInsert(p)
  \/ \E p \in Procs : LoadUrl(p, MethodCode)
  \/ \E p \in Procs : CallMethod(p, Methods)
  \/ \E p \in Procs : Unload(p)
  \/ \E p \in Procs : RedirectUrl(p, MethodCode, {"8.8.8.8"})
  \/ \E p \in Procs : RedirectUpdate(p)
  \/ \E p \in Procs : DeleteUrl(p, MethodCode, Creator)
  \/ CleanupExpiredUrls
  \/ Tick

\* the server once the import of initGeoip has resolved
InitMethods ==
  /\ urls = << >>
  /\ reqs = [p \in Procs |-> IdleReq]
  /\ resp = [p \in Procs |-> NoResp]
  /\ now = 0
  /\ geoip = "loaded"
  /\ analytics = << >>

SpecMethods == InitMethods /\ [][NextMethods]_vars

\* ------------------------------------------------------------ owner flow
\* validatePagination: page an integer from 1, limit an integer in 1..100
validatePagination(page, limit) ==
  page >= 1 /\ limit >= 1 /\ limit <= 100

\* the filter { userId: req.user.id, isActive: true } of getUserUrls
UserUrlsFilter_AnyOwner(store, u) ==
  {i \in Ids(store) : store[i].isActive}

UserUrlsFilter(store, u) ==
  {i \in Ids(store) : store[i].userId = u /\ store[i].isActive}

\* .sort({ createdAt: -1 }): the documents of S, the latest created first
RECURSIVE NewestFirst(_)
NewestFirst(S) ==
  IF S = {} THEN << >>
  ELSE LET i == CHOOSE x \in S : \A y \in S : x >= y
       IN  <<i>> \o NewestFirst(S \ {i})

\* .skip(skip).limit(limit)
SkipLimit(s, skip, limit) ==
  SubSeq(s, skip + 1, IF skip + limit < Len(s) THEN skip + limit ELSE Len(s))

\* GET /api/urls: authenticate, validatePagination, then
\* UrlController.getUserUrls up to its Url.find
GetUserUrls(p, US, PS, LS) ==
  /\ reqs[p].pc = "idle"
  /\ \E u \in US, page \in PS, limit \in LS :
       LET r == [IdleReq EXCEPT !.kind = "list", !.userId = u,
                                !.page = page, !.limit = limit]
           skip == (page - 1) * limit
       IN
       IF ~validatePagination(page, limit)
       THEN Finish(p, r, [NextError("Invalid pagination") EXCEPT
                            !.status = 400])
       ELSE Proceed(p, [r EXCEPT !.pc = "count",
                          !.listed = SkipLimit(
                                       NewestFirst(UserUrlsFilter(urls, u)),
                                       skip, limit)])
  /\ UNCHANGED <<urls, now, geoip, analytics>>

\* Url.countDocuments({ userId, isActive: true }) and the response
ListCount(p) ==
  /\ reqs[p].pc = "count"
  /\ LET r == reqs[p] IN
     Finish(p, r, [Json(200, "") EXCEPT
                     !.list = r.listed,
                     !.count = Cardinality(UserUrlsFilter(urls, r.userId))])
  /\ UNCHANGED <<urls, now, geoip, analytics>>

Pages  == {1, 2}
Limits == {1, 10}
ManageCodes == GenCodes \cup {AbsentCode, "ab"}

NextManage ==
  \/ \E p \in Procs :
       ShortenUrl(p, MethodDests, {NoCode}, Users, {NoDate}, MaxUrls)
  \/ \E p \in Procs : ShortenEnsureUnique(p)
  \/ \E p \in Procs : ShortenCreate(p)
  \/ \E p \in Procs : DeleteUrl(p, ManageCodes, Users)
  \/ \E p \in Procs : GetUserUrls(p, Users, Pages, Limits)
  \/ \E p \in Procs : ListCount(p)

SpecManage == Init /\ [][NextManage]_vars

\* -------------------------------------------------------- validation flow
\* create requests whose alias may be of the wrong format
AliasInputs == Aliases \cup BadAliases \cup {NoCode}

NextValidate ==
  \/ \E p \in Procs :
       ShortenUrl(p, Dests, AliasInputs, Creator, {NoDate}, MaxUrls)
  \/ \E p \in Procs : ShortenEnsureUnique(p)
  \/ \E p \in Procs : ShortenCreate(p)

SpecValidate == Init /\ [][NextValidate]_vars

\* ------------------------------------------------------- the whole system
Next ==
  \/ NextCreate
  \/ NextResolve
  \/ NextAnalytics
  \/ NextValidate
  \/ NextMethods
  \/ NextManage

Spec == Init /\ [][Next]_vars

\* ----------------------------------------------------------------- claims
\* handler p starts a request in this step (and may answer it at once)
Started(p) ==
  /\ reqs[p].pc = "idle"
  /\ <<reqs'[p], resp'[p]>> # <<reqs[p], resp[p]>>

\* handler p is answered in this step
AnsweredNow(p) ==
  /\ reqs'[p].pc = "idle"
  /\ <<reqs'[p], resp'[p]>> # <<reqs[p], resp[p]>>

StartsShorten(p)  == Started(p) /\ reqs'[p].kind = "shorten"
StartsRedirect(p) == Started(p) /\ reqs'[p].kind = "redirect"

\* the last request of p was a create request and is answered
DoneShorten(p) == reqs[p].pc = "idle" /\ reqs[p].kind = "shorten"

Created(p) == resp[p].via = "json" /\ resp[p].status = 201

\* C1: in every reachable state no two stored links have the same short
\* code, whatever creation operations ran and however they interleaved.
NoTwoLinksShareACode ==
  \A i, j \in Ids(urls) : i # j => urls[i].shortCode # urls[j].shortCode

\* C1 witness: two links are stored and a racing insert was turned away.
TwoLinksAfterARace ==
  /\ Len(urls) >= 2
  /\ \E p \in Procs : resp[p].error = "E11000"

\* C2: of the create requests that race for one free custom alias, one is
\* created under the alias and every other one is answered CODE_TAKEN.
RaceLosersGetAliasTaken ==
  \A p, q \in Procs :
    ( /\ p # q
      /\ DoneShorten(p) /\ DoneShorten(q)
      /\ reqs[p].customCode # NoCode
      /\ reqs[p].customCode = reqs[q].customCode
      /\ validateUrl(reqs[p].originalUrl)
      /\ validateUrl(reqs[q].originalUrl)
      /\ Created(q) /\ resp[q].shortCode = reqs[q].customCode )
    => ( /\ resp[p].via = "json"
         /\ resp[p].status = 409
         /\ resp[p].error = "CODE_TAKEN" )

AliasIsTheShortCode ==
  /\ \A p \in Procs :
       (DoneShorten(p) /\ reqs[p].customCode # NoCode /\ Created(p))
       => resp[p].shortCode = reqs[p].customCode
  /\ \A i \in Ids(urls) :
       urls[i].customCode # NoCode => urls[i].shortCode = urls[i].customCode

\* the stored links a redirect request for code c is about
Accessible(i, c) ==
  /\ urls[i].shortCode = c
  /\ urls[i].isActive
  /\ (urls[i].expiresAt = NoDate \/ urls[i].expiresAt > now)

\* C5: a link created for a valid destination d stores d, keeps it, and a
\* redirect request for its code, the link being active, unexpired and
\* without password, is answered with the redirect to d.
RoundTrip ==
  [][ /\ \A i \in Ids(urls) : urls'[i].originalUrl = urls[i].originalUrl
      /\ \A p \in Procs :
           /\ ( reqs[p].pc = "create" /\ AnsweredNow(p) /\ Len(urls') > Len(urls) )
              => ( /\ urls'[Len(urls')].originalUrl = reqs[p].originalUrl
                   /\ urls'[Len(urls')].shortCode = resp'[p].shortCode )
           /\ \A i \in Ids(urls) :
                ( /\ StartsRedirect(p)
                  /\ Accessible(i, reqs'[p].shortCode)
                  /\ urls[i].password = NoPassword )
                => ( /\ reqs'[p].pc = "update"
                     /\ reqs'[p].url.originalUrl = urls[i].originalUrl )
           /\ ( reqs[p].pc = "update" /\ AnsweredNow(p) )
              => resp'[p] = RedirectTo(reqs[p].url.originalUrl) ]_vars

\* C6: every redirect that is issued goes to the stored destination of its
\* link, which never changes, and in every step the click counter of a
\* link grows by 1 if a redirect to it is issued in the step and stays as
\* it is otherwise.
RedirectIssued(p, i) ==
  /\ reqs[p].pc = "update"
  /\ reqs[p].url.id = i
  /\ AnsweredNow(p)
  /\ resp'[p].via = "redirect"

ClicksCountRedirects ==
  [][ /\ Len(urls') >= Len(urls)
      /\ \A i \in Ids(urls) :
           /\ urls'[i].originalUrl = urls[i].originalUrl
           /\ urls'[i].clicks = urls[i].clicks
                + Cardinality({p \in Procs : RedirectIssued(p, i)})
           /\ \A p \in Procs :
                RedirectIssued(p, i)
                => resp'[p].location = urls[i].originalUrl ]_vars

\* C6 witness: two redirects to one link have been issued and its counter
\* stands at 2.
TwoRedirectsCounted ==
  \E p, q \in Procs :
    /\ p # q
    /\ resp[p].via = "redirect" /\ resp[q].via = "redirect"
    /\ reqs[p].shortCode = reqs[q].shortCode
    /\ \E i \in Ids(urls) :
         /\ urls[i].shortCode = reqs[p].shortCode
         /\ urls[i].clicks = 2
         /\ resp[p].location = urls[i].originalUrl
         /\ resp[q].location = urls[i].originalUrl

\* C7: a redirect request for the code of a stored link that is not active
\* is answered 410 INACTIVE, which differs from the 404 of an unknown code.
InactiveIsGone ==
  [][ \A p \in Procs : \A i \in Ids(urls) :
        ( /\ StartsRedirect(p)
          /\ urls[i].shortCode = reqs'[p].shortCode
          /\ ~urls[i].isActive )
        => ( /\ reqs'[p].pc = "idle"
             /\ resp'[p].status = 410
             /\ resp'[p].error = "INACTIVE" ) ]_vars

\* a redirect request is turned away by the lookup
GateRejected(p) == reqs'[p].pc = "idle" /\ resp'[p].via = "json"

\* C8: a redirect request for an active link whose expiresAt is earlier
\* than the clock is answered 410 EXPIRED, and one for an active link whose
\* expiresAt is later than the clock passes the lookup.
ExpiryBoundary ==
  [][ \A p \in Procs : \A i \in Ids(urls) :
        ( /\ StartsRedirect(p)
          /\ urls[i].shortCode = reqs'[p].shortCode
          /\ urls[i].isActive
          /\ urls[i].expiresAt # NoDate )
        => /\ urls[i].expiresAt < now
              => ( /\ reqs'[p].pc = "idle"
                   /\ resp'[p].status = 410
                   /\ resp'[p].error = "EXPIRED" )
           /\ urls[i].expiresAt > now => ~GateRejected(p) ]_vars

\* C9: a redirect request for a code that no stored link has is answered
\* 404 URL_NOT_FOUND, issues no redirect and changes no link.
UnknownCodeIsNotFound ==
  [][ \A p \in Procs :
        ( /\ StartsRedirect(p)
          /\ FindByShortCode(urls, reqs'[p].shortCode) = {} )
        => ( /\ reqs'[p].pc = "idle"
             /\ resp'[p] = Json(404, "URL_NOT_FOUND")
             /\ urls' = urls ) ]_vars

\* C9 witness: links are stored, and a request for a code none of them has
\* has been answered 404.
UnknownCodeWasNotFound ==
  \E p \in Procs :
    /\ reqs[p].pc = "idle" /\ reqs[p].kind = "redirect"
    /\ Len(urls) > 0
    /\ FindByShortCode(urls, reqs[p].shortCode) = {}
    /\ resp[p] = Json(404, "URL_NOT_FOUND")

\* C10: the gates apply in the order existence, active, expiry, password,
\* and the first that fails is reported: a stored link that is inactive is
\* answered INACTIVE also when it is expired, and an active link that is
\* expired is answered EXPIRED also when it carries a password.
GateOrder ==
  [][ \A p \in Procs : \A i \in Ids(urls) :
        ( /\ StartsRedirect(p)
          /\ urls[i].shortCode = reqs'[p].shortCode
          /\ isExpired(urls[i], now) )
        => ( /\ reqs'[p].pc = "idle"
             /\ resp'[p].status = 410
             /\ ~urls[i].isActive => resp'[p].error = "INACTIVE"
             /\ (urls[i].isActive /\ urls[i].password # NoPassword)
                  => resp'[p].error = "EXPIRED" ) ]_vars

\* C11: a redirect request for a link that carries a password is answered
\* PASSWORD_REQUIRED or PASSWORD_INVALID (the handler reads no password from
\* the request, so none is supplied), and no redirect is issued to such a
\* link.  Stated for requests that arrive once geoip is loaded.
PasswordGate ==
  [][ \A p \in Procs : \A i \in Ids(urls) :
        /\ ( /\ StartsRedirect(p)
             /\ geoip = "loaded"
             /\ Accessible(i, reqs'[p].shortCode)
             /\ urls[i].password # NoPassword )
           => ( /\ reqs'[p].pc = "idle"
                /\ resp'[p].error \in {"PASSWORD_REQUIRED",
                                       "PASSWORD_INVALID"} )
        /\ RedirectIssued(p, i) => urls[i].password = NoPassword ]_vars

\* the click events stored in the analytics collection for link i
EventsOf(store, i) == {k \in 1..Len(store) : store[k].urlId = i}

\* C12: every redirect that is issued adds exactly one click event for its
\* link to the analytics collection, and nothing else adds or removes one,
\* so that the events of a link number the redirects issued to it.
OneClickEventPerRedirect ==
  [][ \A i \in Ids(urls) :
        Cardinality(EventsOf(analytics', i))
          = Cardinality(EventsOf(analytics, i))
            + Cardinality({p \in Procs : RedirectIssued(p, i)}) ]_vars

\* the counters and the click history of link i are left as they are
CountersKept(i) ==
  /\ urls'[i].clicks = urls[i].clicks
  /\ urls'[i].uniqueClicks = urls[i].uniqueClicks
  /\ urls'[i].lastAccessedAt = urls[i].lastAccessedAt
  /\ urls'[i].clickHistory = urls[i].clickHistory

\* C13: a redirect request that fails a gate writes nothing: one that is
\* turned away on arrival (unknown code, inactive link, expired link) leaves
\* both collections as they are, and one for a link that carries a password
\* (none is supplied) leaves the counters of the link as they are and adds
\* no click event.
FailedResolveWritesNothing ==
  [][ \A p \in Procs :
        /\ (StartsRedirect(p) /\ reqs'[p].pc = "idle")
           => (urls' = urls /\ analytics' = analytics)
        /\ \A i \in Ids(urls) :
             ( /\ reqs[p].pc = "update"
               /\ reqs[p].url.id = i
               /\ AnsweredNow(p)
               /\ urls[i].password # NoPassword )
             => (CountersKept(i) /\ analytics' = analytics) ]_vars

\* C14: a redirect request that has passed the lookup is always answered
\* with the redirect to the destination it read, also when the store
\* rejects the click update.
RedirectSurvivesStoreFailure ==
  [][ \A p \in Procs :
        (reqs[p].pc = "update" /\ AnsweredNow(p))
        => resp'[p] = RedirectTo(reqs[p].url.originalUrl) ]_vars

\* C15: a redirect request that arrives while geoip is not loaded and whose
\* link passes the lookup is not failed: it goes on to the click update.
GeoUnavailableStillRedirects ==
  [][ \A p \in Procs : \A i \in Ids(urls) :
        ( /\ StartsRedirect(p)
          /\ geoip # "loaded"
          /\ Accessible(i, reqs'[p].shortCode) )
        => ( /\ reqs'[p].pc = "update"
             /\ resp'[p].via # "next" ) ]_vars

\* the IP addresses of the clicks recorded for a link
VisitorIPs(u) == {u.clickHistory[k].ip : k \in 1..Len(u.clickHistory)}

\* C16: the click counter of a link is the number of clicks recorded for
\* it and its unique-visitor counter the number of distinct IP addresses
\* they came from (the clock spans less than 24 hours).
UniqueVisitorsCounted ==
  \A i \in Ids(urls) :
    /\ urls[i].clicks = Len(urls[i].clickHistory)
    /\ urls[i].uniqueClicks = Cardinality(VisitorIPs(urls[i]))

\* C17: a request generates and checks at most 10 candidate codes; it does
\* not go on to an eleventh.
AtMostTenAttempts ==
  \A p \in Procs : reqs[p].attempts <= 10

\* C18: a create request without custom alias whose insert is rejected by
\* the unique index is not answered with that failure: the handler goes on
\* (to retry with a fresh code).
DuplicateInsertIsRetried ==
  [][ \A p \in Procs :
        ( /\ reqs[p].pc = "create"
          /\ reqs[p].customCode = NoCode
          /\ DuplicateKey(urls, reqs[p].shortCode)
          /\ reqs'[p] # reqs[p] )
        => ~( reqs'[p].pc = "idle" /\ resp'[p].via = "next" ) ]_vars

\* handler p has answered an analytics request made on route rt
DoneAnalytics(p, rt) ==
  /\ reqs[p].pc = "idle"
  /\ reqs[p].kind = "analytics"
  /\ reqs[p].route = rt

\* the links an answered analytics request is about
Scope(p) ==
  CASE reqs[p].route = "url"    -> FindByShortCode(urls, reqs[p].shortCode)
    [] reqs[p].route = "system" -> Ids(urls)
    [] OTHER -> {i \in Ids(urls) : urls[i].userId = reqs[p].userId}

\* the events of the links in ids that are at most `hours` old
EventsWithin(ids, hours) ==
  {k \in 1..Len(analytics) :
     /\ analytics[k].urlId \in ids
     /\ analytics[k].timestamp >= now - hours
     /\ analytics[k].timestamp <= now}

\* the events of the links in ids
EventsOfAll(ids) == {k \in 1..Len(analytics) : analytics[k].urlId \in ids}

\* the events the window named tf spans
EventsNamed(ids, tf) ==
  CASE tf = "24h" -> EventsWithin(ids, 24)
    [] tf = "7d"  -> EventsWithin(ids, Days(7))
    [] tf = "30d" -> EventsWithin(ids, Days(30))
    [] tf = "90d" -> EventsWithin(ids, Days(90))
    [] OTHER      -> EventsOfAll(ids)

\* C19: a per-link analytics query for a stored link with a timeframe of
\* 24h, 7d, 30d, 90d or all is answered 200 with the number of the link's
\* events in the window of that name (all: every event of the link).
TimeframesCounted ==
  \A p \in Procs :
    ( /\ DoneAnalytics(p, "url")
      /\ reqs[p].timeframe \in {"24h", "7d", "30d", "90d", "all"}
      /\ Scope(p) # {} )
    => ( /\ resp[p].via = "json"
         /\ resp[p].status = 200
         /\ resp[p].count
              = Cardinality(EventsNamed(Scope(p), reqs[p].timeframe)) )

\* C20: an analytics query with a timeframe outside the named set is
\* answered 200 with the count of the default window: 7 days on the
\* per-link route, 30 days on the per-owner and system routes.
UnknownTimeframeFallsBack ==
  \A p \in Procs :
    ( /\ reqs[p].pc = "idle"
      /\ reqs[p].kind = "analytics"
      /\ reqs[p].timeframe = "1y"
      /\ (reqs[p].route = "url" => Scope(p) # {}) )
    => ( /\ resp[p].via = "json"
         /\ resp[p].status = 200
         /\ resp[p].count
              = Cardinality(EventsWithin(Scope(p),
                              IF reqs[p].route = "url" THEN Days(7)
                              ELSE Days(30))) )

\* the events of the links in ids inside the window that timeframe tf names
\* on the per-link routes, none being 7 days
EventsInWindow(ids, tf) ==
  EventsNamed(ids, IF tf = NoTimeframe THEN "7d" ELSE tf)

\* C21: a per-link analytics request for a stored link, made by its owner or
\* on the open route, with a timeframe of 24h, 7d, 30d or none, is answered
\* with a report whose total is the number of the link's events in the
\* window and whose unique count is the number of distinct addresses among
\* them; events of other links are not counted.
ReportReflectsEvents ==
  \A p \in Procs :
    ( /\ reqs[p].pc = "idle"
      /\ \/ DoneAnalytics(p, "url")
         \/ reqs[p].kind = "report"
      /\ reqs[p].timeframe \in {"24h", "7d", "30d", NoTimeframe}
      /\ FindByShortCode(urls, reqs[p].shortCode) # {} )
    => LET events == EventsInWindow(FindByShortCode(urls, reqs[p].shortCode),
                                    reqs[p].timeframe)
       IN  /\ resp[p].via = "json"
           /\ resp[p].status = 200
           /\ resp[p].count = Cardinality(events)
           /\ resp[p].unique
                = Cardinality({analytics[k].ipAddress : k \in events})

\* the alias of a request is not of the format: 3 to 20 characters, each a
\* letter, a digit, '-' or '_'
AliasMalformed(r) == r.customCode # NoCode /\ ~ShortCodeValid(r.customCode)

\* C22: a create request whose destination is not a valid http/https URL,
\* or whose alias is not of the format, is answered with a failure (a
\* validation error, or CODE_TAKEN where the alias is also taken) and the
\* step that answers it stores no link.
MalformedCreateIsRefused ==
  [][ \A p \in Procs :
        ( /\ AnsweredNow(p)
          /\ reqs'[p].kind = "shorten"
          /\ ~IsURL(reqs'[p].originalUrl) \/ AliasMalformed(reqs'[p]) )
        => ( /\ urls' = urls
             /\ resp'[p].error
                  \in {"INVALID_URL", "ValidationError", "CODE_TAKEN"} ) ]_vars

\* the list s is kept as the front of the list s2
KeptIn(s, s2) == Len(s2) >= Len(s) /\ SubSeq(s2, 1, Len(s)) = s

\* C23: no step removes a stored link (a delete or a cleanup clears
\* isActive and leaves the document in place), no step changes or removes a
\* click that is already recorded, in a link or in the analytics
\* collection, and every click event refers to a stored link.
ClicksAndLinksAreKept ==
  [][ /\ Len(urls') >= Len(urls)
      /\ \A i \in Ids(urls) :
           /\ urls'[i].shortCode = urls[i].shortCode
           /\ urls'[i].originalUrl = urls[i].originalUrl
           /\ KeptIn(urls[i].clickHistory, urls'[i].clickHistory)
      /\ KeptIn(analytics, analytics')
      /\ \A k \in 1..Len(analytics') :
           analytics'[k].urlId \in Ids(urls') ]_vars

\* C23 witness: a link with a recorded click has been deleted by its owner
\* and is still stored, click included.
ClickedLinkWasDeleted ==
  \E p \in Procs : \E i \in Ids(urls) :
    /\ reqs[p].pc = "idle" /\ reqs[p].kind = "delete"
    /\ resp[p].status = 200
    /\ ~urls[i].isActive
    /\ Len(urls[i].clickHistory) > 0

\* C24: no step changes the short code of a stored link, whichever
\* operation it belongs to: a redirect with its click update, a call of
\* incrementClicks, incrementUniqueClicks or updateLastAccess, a save of a
\* loaded document, a delete or the cleanup of expired links.
ShortCodeIsKept ==
  [][ /\ Len(urls') >= Len(urls)
      /\ \A i \in Ids(urls) : urls'[i].shortCode = urls[i].shortCode ]_vars

\* C24 witness: a link that was clicked through a redirect, had its
\* counters raised by the methods and is no longer active still has the
\* code of the method calls.
LinkWentThroughEverything ==
  \E p \in Procs : \E i \in Ids(urls) :
    /\ reqs[p].pc = "loaded" /\ reqs[p].doc.id = i
    /\ reqs[p].method = "incrementUniqueClicks"
    /\ resp[p].via = "return"
    /\ urls[i].uniqueClicks > 0
    /\ urls[i].lastAccessedAt # NoDate
    /\ Len(urls[i].clickHistory) > 0
    /\ ~urls[i].isActive
    /\ urls[i].shortCode = reqs[p].doc.shortCode

\* C27: every call of incrementClicks that returns raises the stored click
\* counter of its link by exactly 1, also when another caller holds a copy
\* of the same link.
IncrementClicksAddsOne ==
  [][ \A p \in Procs :
        ( /\ reqs[p].pc = "loaded"
          /\ reqs'[p].doc.clicks = reqs[p].doc.clicks + 1
          /\ resp'[p].via = "return" )
        => urls'[reqs[p].doc.id].clicks
             = urls[reqs[p].doc.id].clicks + 1 ]_vars

\* handler p runs the Url.find of a listing in this step
ListsNow(p) ==
  /\ reqs[p].pc = "idle"
  /\ reqs'[p].kind = "list"
  /\ reqs'[p].pc = "count"

\* the links of u that are active
ActiveLinksOf(u) == {i \in Ids(urls) : urls[i].userId = u /\ urls[i].isActive}

\* C25: the links a listing returns are links of the caller that are
\* active, each at most once and never a link of another owner; the first
\* page returns all of them where they fit the limit, and limit of them
\* where they do not.
ListingIsTheCallersActiveLinks ==
  [][ \A p \in Procs :
        ListsNow(p) =>
          LET L    == reqs'[p].listed
              mine == ActiveLinksOf(reqs'[p].userId)
          IN  /\ \A k \in 1..Len(L) : L[k] \in mine
              /\ \A k, l \in 1..Len(L) : k # l => L[k] # L[l]
              /\ reqs'[p].page = 1 =>
                   Len(L) = IF Cardinality(mine) <= reqs'[p].limit
                            THEN Cardinality(mine) ELSE reqs'[p].limit ]_vars

\* C25 witness: a listing has returned one link to its caller while the
\* collection holds two, the other one inactive or of another owner.
ListingLeftALinkOut ==
  \E p \in Procs :
    /\ reqs[p].pc = "idle" /\ reqs[p].kind = "list"
    /\ reqs[p].page = 1 /\ reqs[p].limit = 10
    /\ resp[p].status = 200
    /\ Len(resp[p].list) = 1
    /\ Len(urls) = 2
    /\ \E i \in Ids(urls) : urls[i].userId # reqs[p].userId
    /\ urls[resp[p].list[1]].userId = reqs[p].userId

\* C26: a delete request for a code that names a link of the caller clears
\* isActive of that link, leaves every other link as it is and is answered
\* 200; a delete request for a code that names no link, or a link of
\* another owner, is answered 404 and changes no link.
DeleteHitsTheNamedLink ==
  [][ \A p \in Procs :
        ( /\ Started(p)
          /\ reqs'[p].kind = "delete"
          /\ validateShortCode(reqs'[p].shortCode) )
        => LET named == {i \in FindByShortCode(urls, reqs'[p].shortCode) :
                           urls[i].userId = reqs'[p].userId}
           IN  IF named = {}
               THEN resp'[p].status = 404 /\ urls' = urls
               ELSE /\ resp'[p].status = 200
                    /\ \E i \in named :
                         urls' = [urls EXCEPT ![i].isActive = FALSE] ]_vars

\* C28: a per-link analytics request on GET /api/analytics/url/:shortCode
\* for a link that has an owner, made by anyone else (a caller without
\* identity included), is not answered with the report.
AnalyticsOnlyForTheOwner ==
  \A p \in Procs : \A i \in Ids(urls) :
    ( /\ DoneAnalytics(p, "url")
      /\ i \in FindByShortCode(urls, reqs[p].shortCode)
      /\ urls[i].userId # NoUser
      /\ reqs[p].userId # urls[i].userId )
    => ~(resp[p].via = "json" /\ resp[p].status = 200)

\* C29: at every time the lookup of redirectUrl finds a stored link under
\* its code exactly if isAccessible() holds of it, the time at which
\* expiresAt equals the clock included.
LookupAgreesWithIsAccessible ==
  \A i \in Ids(urls) :
    (i \in RedirectFind(urls, urls[i].shortCode, now))
      <=> isAccessible(urls[i], now)

\* the entries of a batch that are valid URLs
ValidEntries(items) == {k \in 1..Len(items) : validateUrl(items[k])}

\* C30: a batch of more than 50 entries is turned away and no link is
\* created; a batch of at most 50 is answered 201 with one link for every
\* valid URL in it, invalid entries being skipped, also where a generated
\* code collides with a stored one.
BulkCreatesEveryValidUrl ==
  [][ \A p \in Procs :
        /\ ( /\ Started(p)
             /\ reqs'[p].kind = "bulk"
             /\ resp'[p].error = "TooMany" )
           => urls' = urls
        /\ ( reqs[p].pc = "bulk" /\ AnsweredNow(p) )
           => ( /\ resp'[p].status = 201
                /\ resp'[p].count
                     = Cardinality(ValidEntries(reqs[p].items)) ) ]_vars

=============================================================================
